---- MODULE Spec2Model ----
(***************************************************************************)
(* A model of the CHIP-8 emulator of src/chip8.c: the machine object       *)
(* chip8_t, its construction (init_chip8), the input handler                *)
(* (handle_input), one instruction cycle (emulate_instruction) and the     *)
(* driver loop of main.                                                    *)
(***************************************************************************)
EXTENDS Integers, Sequences, FiniteSets, TLC

VARIABLES
  rom_name, \* the ROM file named by argv[1]
  chip8,    \* the chip8_t machine object of main
  pc,       \* position of main: "init", "loop", "emulate", "exit_success",
            \*   "exit_failure", or "fault" after an out-of-bounds write
  cycles    \* number of emulate_instruction calls made so far

vars == <<rom_name, chip8, pc, cycles>>

----------------------------------------------------------------------------
(* Bounds of the model *)

\* the driver loop is followed for at most this many instruction cycles
MaxCycles == 13
\* ROM programs built from the opcode alphabet have at most this many words
MaxRomWords == 2
\* SDL events pending at one poll of handle_input
MaxEvents == 2

----------------------------------------------------------------------------
(* Program constants *)

RamSize == 4096
StackSize == 12
EntryPoint == 512
WindowWidth == 64
WindowHeight == 32
DisplaySize == WindowWidth * WindowHeight

U8 == 256
U16 == 65536

----------------------------------------------------------------------------
(* C integer operators *)

RECURSIVE Pow2(_)
Pow2(n) == IF n = 0 THEN 1 ELSE 2 * Pow2(n - 1)

\* a & b on non-negative integers
RECURSIVE BitAnd(_, _)
BitAnd(a, b) ==
  IF a = 0 \/ b = 0 THEN 0
  ELSE (IF a % 2 = 1 /\ b % 2 = 1 THEN 1 ELSE 0) + 2 * BitAnd(a \div 2, b \div 2)

\* a | b on non-negative integers
RECURSIVE BitOr(_, _)
BitOr(a, b) ==
  IF a = 0 THEN b
  ELSE IF b = 0 THEN a
  ELSE (IF a % 2 = 1 \/ b % 2 = 1 THEN 1 ELSE 0) + 2 * BitOr(a \div 2, b \div 2)

ShiftL(a, n) == a * Pow2(n)
ShiftR(a, n) == a \div Pow2(n)

----------------------------------------------------------------------------
(* The font of init_chip8 *)

font ==
  << 240, 144, 144, 144, 240,    \* 0
      32,  96,  32,  32, 112,    \* 1
     240,  16, 240, 128, 240,    \* 2
     240,  16, 240,  16, 240,    \* 3
     144, 144, 240,  16,  16,    \* 4
     240, 128, 240,  16, 240,    \* 5
     240, 128, 240, 144, 240,    \* 6
     240,  16,  32,  64,  64,    \* 7
     240, 144, 240, 144, 240,    \* 8
     240, 144, 240,  16, 240,    \* 9
     240, 144, 240, 144, 144,    \* A
     224, 144, 224, 144, 224,    \* B
     240, 128, 128, 128, 240,    \* C
     224, 144, 144, 144, 224,    \* D
     240, 128, 240, 128, 240,    \* E
     240, 128, 240, 128, 128 >>  \* F

----------------------------------------------------------------------------
(* ROM files handed to init_chip8 *)

\* A ROM file: whether fopen finds it, its size in bytes, its leading
\* big-endian opcode words, and the byte that fills the rest of the file.
RomFile(exists, size, words, pad) ==
  [exists |-> exists, size |-> size, words |-> words, pad |-> pad]

Program(words) == RomFile(TRUE, 2 * Len(words), words, 0)

\* byte k of the file
RomByte(rom, k) ==
  IF k < 2 * Len(rom.words)
  THEN LET w == rom.words[(k \div 2) + 1]
       IN IF k % 2 = 0 THEN w \div 256 ELSE w % 256
  ELSE rom.pad

\* opcodes the generated programs are built from:
\*   00E0 clear, 00EE return, 1200 jump to entry, 2200 call entry,
\*   603C V0 := 60, 7F01 VF += 1, A002 I := 2, D005 draw 5 rows at (V0, V0),
\*   3000 (not implemented)
Alphabet == {224, 238, 4608, 8704, 24636, 32513, 40962, 53253, 12288}

RECURSIVE SeqsUpTo(_, _)
SeqsUpTo(S, n) ==
  IF n = 0 THEN {<<>>}
  ELSE LET shorter == SeqsUpTo(S, n - 1)
       IN shorter \cup {Append(s, x) : s \in shorter, x \in S}

AlphabetPrograms == {Program(w) : w \in SeqsUpTo(Alphabet, MaxRomWords) \ {<<>>}}

\* hand-written programs
ScenarioPrograms ==
  { Program(<<24581, 28675>>),                      \* 6005 7003
    Program(<<24826, 28682, 32517>>),               \* 60FA 700A 7F05
    Program(<<224, 41478, 53249, 65280>>),          \* 00E0 A206 D001 FF00
    Program(<<41480, 24636, 24863, 53266, 65535>>), \* A208 603C 611F D012 FFFF
    Program(<<41482, 24636, 24862, 53267, 53267, 65535, 65535>>),
                                                    \* A20A 603C 611E D013 D013 FFFF FFFF
    Program(<<24639, 24927, 53279, 53279>>),        \* 603F 615F D01F D01F
    Program(<<28421, 57089, 57089>>),               \* 6F05 DF01 DF01
    Program(<<24580, 53489, 53489>>),               \* 6004 D0F1 D0F1
    Program(<<45055, 53250, 53250>>),               \* AFFF D002 D002
    Program(<<45042, 53263, 53263>>),               \* AFF2 D00F D00F
    Program(<<8710, 4610, 238, 8708, 238>>),        \* 2206 1202 00EE 2204 00EE
    Program(<<8708, 238, 238>>),                    \* 2204 00EE 00EE
    Program(<<4609>>),                              \* 1201
    Program(<<8195>>),                              \* 2003
    Program(<<8190, 0, 0>>),                        \* 1FFE
    Program(<<8191>>),                              \* 1FFF
    Program(<<12544, 16640, 20752, 33060, 37200, 45568, 49407, 57758, 61450,
              225, 291>>)   \* 3100 4100 5110 8124 9150 B200 C0FF E19E F00A 00E1 0123
  }

\* files that exercise the size check of init_chip8
SizedRoms ==
  { RomFile(FALSE, 0, <<>>, 0),                     \* no such file
    RomFile(TRUE, 0, <<>>, 0),                      \* empty file
    RomFile(TRUE, RamSize - EntryPoint, <<45055, 53250, 53250>>, 128),
                                                    \* largest file that fits
    RomFile(TRUE, RamSize - EntryPoint + 1, <<224>>, 0),  \* one byte too big
    RomFile(TRUE, U16, <<224>>, 255) }

Roms == AlphabetPrograms \cup ScenarioPrograms \cup SizedRoms

----------------------------------------------------------------------------
(* The machine object and its construction *)

NullPtr == [base |-> "null", off |-> 0]
StackPtr(k) == [base |-> "stack", off |-> k]

Decoded(opcode, NNN, NN, N, X, Y) ==
  [opcode |-> opcode, NNN |-> NNN, NN |-> NN, N |-> N, X |-> X, Y |-> Y]

\* chip8_t chip8 = {0}: QUIT is the enumerator with value 0
\* (the two arrays are listed first, the scalar fields last)
ZeroChip8 ==
  [ ram       |-> [a \in 0..(RamSize - 1) |-> 0],
    display   |-> [i \in 0..(DisplaySize - 1) |-> FALSE],
    stack     |-> [k \in 0..(StackSize - 1) |-> 0],
    V         |-> [r \in 0..15 |-> 0],
    stack_ptr |-> NullPtr,
    I         |-> 0,
    PC        |-> 0,
    inst      |-> Decoded(0, 0, 0, 0, 0, 0),
    state     |-> "QUIT" ]

\* memcpy(&chip8->ram[0], font, sizeof(font))
LoadFont(ram) ==
  [a \in DOMAIN ram |-> IF a < Len(font) THEN font[a + 1] ELSE ram[a]]

\* fread(&chip8->ram[entry_point], rom_size, 1, rom)
LoadRom(ram, rom) ==
  [a \in DOMAIN ram |->
     IF a >= EntryPoint /\ a < EntryPoint + rom.size
     THEN RomByte(rom, a - EntryPoint) ELSE ram[a]]

\* rom_size > max_size
TooBig(rom) == rom.size > RamSize - EntryPoint

\* init_chip8 returns true: the file opens, fits, and fread reads its one
\* item of rom_size bytes (fread returns 0 for an item of size 0)
InitSucceeds(rom) == rom.exists /\ ~TooBig(rom) /\ rom.size > 0

\* the machine init_chip8 leaves behind; the font is copied before the
\* file is opened, the defaults are set only on success
InitChip8Result(c, rom) ==
  LET fonted == [c EXCEPT !.ram = LoadFont(c.ram)]
  IN IF InitSucceeds(rom)
     THEN [fonted EXCEPT !.ram = LoadRom(fonted.ram, rom),
                         !.state = "RUNNING",
                         !.PC = EntryPoint,
                         !.stack_ptr = StackPtr(0)]
     ELSE fonted

\* main, lines 454-456
InitChip8 ==
  /\ pc = "init"
  /\ chip8' = InitChip8Result(chip8, rom_name)
  /\ pc' = IF InitSucceeds(rom_name) THEN "loop" ELSE "exit_failure"
  /\ UNCHANGED <<rom_name, cycles>>

----------------------------------------------------------------------------
(* handle_input *)

Events == {"SDL_QUIT", "KEY_ESCAPE", "KEY_SPACE", "OTHER"}

EventQueues == SeqsUpTo(Events, MaxEvents)

\* the while (SDL_PollEvent(&event)) loop: the state handle_input leaves
RECURSIVE HandleEvents(_, _)
HandleEvents(st, q) ==
  IF q = <<>> THEN st
  ELSE CASE Head(q) = "SDL_QUIT"   -> "QUIT"
         [] Head(q) = "KEY_ESCAPE" -> "QUIT"
         [] Head(q) = "KEY_SPACE"  -> IF st = "RUNNING" THEN "PAUSED" ELSE "RUNNING"
         [] OTHER                  -> HandleEvents(st, Tail(q))

\* the states handle_input can leave, over the event queues it may find
HandleInputResults(st) == {HandleEvents(st, q) : q \in EventQueues}

\* the loop written as do ... while: handle_input polled without the test
\* of state != QUIT
HandleInputAfterQuit ==
  /\ pc = "loop"
  /\ \E st \in HandleInputResults(chip8.state) :
       /\ chip8' = [chip8 EXCEPT !.state = st]
       /\ pc' = IF st = "PAUSED" THEN "loop" ELSE "emulate"
  /\ UNCHANGED <<rom_name, cycles>>

\* main, lines 462-466: the loop test, handle_input, and the PAUSED test
HandleInput ==
  /\ pc = "loop"
  /\ chip8.state # "QUIT"
  /\ \E st \in HandleInputResults(chip8.state) :
       /\ chip8' = [chip8 EXCEPT !.state = st]
       /\ pc' = IF st = "PAUSED" THEN "loop" ELSE "emulate"
  /\ UNCHANGED <<rom_name, cycles>>

\* main, lines 462 and 482-485: the loop ends and the process exits
FinalCleanup ==
  /\ pc = "loop"
  /\ chip8.state = "QUIT"
  /\ pc' = "exit_success"
  /\ UNCHANGED <<rom_name, chip8, cycles>>

----------------------------------------------------------------------------
(* emulate_instruction: fetch and decode *)

\* values an out-of-bounds read may produce
UBBytes == {0, 18, 238}
UBWords == {0, 513, 4094, 65535}

\* the choices of a read that is out of bounds only under cond
JunkIf(cond, S) == IF cond THEN S ELSE {0}

InRam(a) == a >= 0 /\ a < RamSize

\* chip8->ram[a]; outside the array the read is undefined: junk
MemByte(ram, a, junk) == IF InRam(a) THEN ram[a] ELSE junk

\* (chip8->ram[chip8->PC] << 8) | chip8->ram[chip8->PC+1], as uint16_t
FetchOpcode(c, hi, lo) ==
  BitOr(ShiftL(MemByte(c.ram, c.PC, hi), 8), MemByte(c.ram, c.PC + 1, lo)) % U16

\* the decode with the shift of Y left out
DecodeYUnshifted(opcode) ==
  Decoded(opcode,
          BitAnd(opcode, 4095),
          BitAnd(opcode, 255),
          BitAnd(opcode, 15),
          BitAnd(ShiftR(opcode, 8), 15),
          BitAnd(opcode, 240))

\* lines 339-343
Decode(opcode) ==
  Decoded(opcode,
          BitAnd(opcode, 4095),
          BitAnd(opcode, 255),
          BitAnd(opcode, 15),
          BitAnd(ShiftR(opcode, 8), 15),
          BitAnd(ShiftR(opcode, 4), 15))

\* the switch expression (chip8->inst.opcode >> 12) & 0x0F
TopNibble(opcode) == BitAnd(ShiftR(opcode, 12), 15)

\* lines 335-343: the machine after fetch, PC += 2 and decode
Fetched(c, hi, lo) ==
  [c EXCEPT !.inst = Decode(FetchOpcode(c, hi, lo)),
            !.PC = (c.PC + 2) % U16]

----------------------------------------------------------------------------
(* emulate_instruction: 00EE and 2NNN *)

InStack(k) == k >= 0 /\ k < StackSize

\* the address of the call itself pushed, not the one after it
PushedCallSite(c) == (c.PC - 2) % U16

\* the value 2NNN pushes: chip8->PC, already advanced past the call
PushedValue(c) == c.PC

\* *chip8->stack_ptr++ = chip8->PC; chip8->PC = chip8->inst.NNN
\* (a store outside stack[] is not recorded in the model's stack)
Call(c) ==
  LET k == c.stack_ptr.off
  IN [c EXCEPT !.stack = IF InStack(k) THEN [c.stack EXCEPT ![k] = PushedValue(c)]
                         ELSE c.stack,
               !.stack_ptr = [c.stack_ptr EXCEPT !.off = k + 1],
               !.PC = c.inst.NNN]

\* chip8->PC = *--chip8->stack_ptr; below stack[0] the read is undefined: junk
Return(c, junk) ==
  LET k == c.stack_ptr.off - 1
  IN [c EXCEPT !.stack_ptr = [c.stack_ptr EXCEPT !.off = k],
               !.PC = IF InStack(k) THEN c.stack[k] ELSE junk]

----------------------------------------------------------------------------
(* emulate_instruction: DXYN *)

\* the start column read after the store V[0xF] = 0
StartXAfterClear(c) == [c.V EXCEPT ![15] = 0][c.inst.X] % WindowWidth

\* chip8->V[chip8->inst.X] % config.window_width
StartX(c) == c.V[c.inst.X] % WindowWidth

\* chip8->V[chip8->inst.Y] % config.window_height
StartY(c) == c.V[c.inst.Y] % WindowHeight

\* Y_coord * config.window_width + X_coord
PixelIndex(X_coord, Y_coord) == Y_coord * WindowWidth + X_coord

InDisplay(idx) == idx >= 0 /\ idx < DisplaySize

\* *pixel (outside display[] the code has no defined value; never reached,
\* see DisplayIndexSafe)
PixelAt(display, idx) == IF InDisplay(idx) THEN display[idx] ELSE FALSE

\* sprite_data & (1 << j)
SpriteBit(sprite_data, j) == BitAnd(sprite_data, ShiftL(1, j)) # 0

\* the flag raised by every set sprite bit, lit cell or not
CollisionAnyBit(sprite_bit, pixel) == sprite_bit

\* if (sprite_bit && *pixel)
Collision(sprite_bit, pixel) == sprite_bit /\ pixel

\* the sprite bit OR-ed into the cell instead of XOR-ed
OrPixel(pixel, sprite_bit) == pixel \/ sprite_bit

\* *pixel ^= sprite_bit
XorPixel(pixel, sprite_bit) == pixel # sprite_bit

\* the right-edge test with > for >=
RightEdgeLate(X_coord) == X_coord > WindowWidth

\* if (++X_coord >= config.window_width) break;   (X_coord already incremented)
RightEdge(X_coord) == X_coord >= WindowWidth

\* the bottom-edge test with > for >=
BottomEdgeLate(Y_coord) == Y_coord > WindowHeight

\* if (++Y_coord >= config.window_height) break;  (Y_coord already incremented)
BottomEdge(Y_coord) == Y_coord >= WindowHeight

\* the state of a draw in progress: the display, V[0xF], the display
\* indices dereferenced and the ram addresses read so far
DrawState(display, VF, access, reads) ==
  [display |-> display, VF |-> VF, access |-> access, reads |-> reads]

\* one pass of the inner loop body, line 413-421
DrawPixel(d, sprite_data, j, X_coord, Y_coord) ==
  LET idx == PixelIndex(X_coord, Y_coord)
      pixel == PixelAt(d.display, idx)
      sprite_bit == SpriteBit(sprite_data, j)
  IN DrawState(
       IF InDisplay(idx)
       THEN [d.display EXCEPT ![idx] = XorPixel(pixel, sprite_bit)]
       ELSE d.display,
       IF Collision(sprite_bit, pixel) THEN 1 ELSE d.VF,
       d.access \cup {idx},
       d.reads)

\* for (int8_t j = 7; j >= 0; j--) { ... }, from bit j at column X_coord
\* (the conjunct d1.VF \in {0, 1} is true of every draw state; it makes TLC
\* evaluate this pass before it enters the next one)
RECURSIVE DrawRow(_, _, _, _, _)
DrawRow(d, sprite_data, j, X_coord, Y_coord) ==
  IF j < 0 THEN d
  ELSE LET d1 == DrawPixel(d, sprite_data, j, X_coord, Y_coord)
       IN IF d1.VF \in {0, 1} /\ RightEdge(X_coord + 1) THEN d1
          ELSE DrawRow(d1, sprite_data, j - 1, X_coord + 1, Y_coord)

\* for (uint8_t i = 0; i < chip8->inst.N; ++i) { ... }, from row i at Y_coord
RECURSIVE DrawRows(_, _, _, _, _, _)
DrawRows(d, c, i, orig_X, Y_coord, junk) ==
  IF ~(i < c.inst.N) THEN d
  ELSE LET sprite_data == MemByte(c.ram, c.I + i, junk)
           d0 == [d EXCEPT !.reads = d.reads \cup {c.I + i}]
           d1 == DrawRow(d0, sprite_data, 7, orig_X, Y_coord)
       IN IF d1.VF \in {0, 1} /\ BottomEdge(Y_coord + 1) THEN d1
          ELSE DrawRows(d1, c, i + 1, orig_X, (Y_coord + 1) % U8, junk)

\* lines 399-428 on the fetched machine c: the coordinates are read, then
\* V[0xF] is cleared, then the rows are drawn
DrawSprite(c, junk) ==
  DrawRows(DrawState(c.display, 0, {}, {}), c, 0, StartX(c), StartY(c), junk)

\* a draw that also advances I past the sprite rows it read
DrawAdvancesI(c, junk) ==
  LET d == DrawSprite(c, junk)
  IN [c EXCEPT !.display = d.display, !.V = [c.V EXCEPT ![15] = d.VF],
               !.I = (c.I + c.inst.N) % U16]

Draw(c, junk) ==
  LET d == DrawSprite(c, junk)
  IN [c EXCEPT !.display = d.display, !.V = [c.V EXCEPT ![15] = d.VF]]

----------------------------------------------------------------------------
(* emulate_instruction: the switch *)

\* the memset aimed at ram[] instead of display[]
ClearRam(c) ==
  [c EXCEPT !.ram = [a \in DOMAIN c.ram |-> IF a < DisplaySize THEN 0 ELSE c.ram[a]]]

\* the memset given the width of the window for its size
ClearFirstRow(c) ==
  [c EXCEPT !.display =
     [i \in DOMAIN c.display |-> IF i < WindowWidth THEN FALSE ELSE c.display[i]]]

\* memset(&chip8->display[0], false, sizeof chip8->display)
ClearDisplay(c) == [c EXCEPT !.display = [i \in DOMAIN c.display |-> FALSE]]

\* case 0x0
Family0(c, word) ==
  IF c.inst.NN = 224 THEN ClearDisplay(c)
  ELSE IF c.inst.NN = 238 THEN Return(c, word)
  ELSE c

\* the addition of 8XY4, which records the carry in V[0xF]
AddImmediateCarry(c) ==
  LET sum == c.V[c.inst.X] + c.inst.NN
  IN [c EXCEPT !.V = [[c.V EXCEPT ![c.inst.X] = sum % U8]
                        EXCEPT ![15] = IF sum >= U8 THEN 1 ELSE 0]]

\* chip8->V[chip8->inst.X] += chip8->inst.NN, in uint8_t
AddImmediate(c) ==
  [c EXCEPT !.V = [c.V EXCEPT ![c.inst.X] = (c.V[c.inst.X] + c.inst.NN) % U8]]

\* an unimplemented opcode treated as a skip of the next instruction
UnimplementedSkips(c) == [c EXCEPT !.PC = (c.PC + 2) % U16]

\* the cases an opcode outside the implemented set reaches
Unimplemented(c) == c

\* lines 350-434 on the fetched machine c
\* a jump followed by the advance of PC past the instruction
JumpThenAdvance(c) == [c EXCEPT !.PC = (c.inst.NNN + 2) % U16]

\* chip8->PC = chip8->inst.NNN
Jump(c) == [c EXCEPT !.PC = c.inst.NNN]

Execute(c, word, sprite) ==
  LET n == TopNibble(c.inst.opcode)
  IN CASE n = 0  -> Family0(c, word)
       [] n = 1  -> Jump(c)
       [] n = 2  -> Call(c)
       [] n = 6  -> [c EXCEPT !.V = [c.V EXCEPT ![c.inst.X] = c.inst.NN]]
       [] n = 7  -> AddImmediate(c)
       [] n = 10 -> [c EXCEPT !.I = c.inst.NNN]
       [] n = 13 -> Draw(c, sprite)
       [] OTHER  -> Unimplemented(c)

\* emulate_instruction as a whole
Emulate(c, hi, lo, word, sprite) == Execute(Fetched(c, hi, lo), word, sprite)

\* the fetched instruction is 00EE and pops from outside stack[]
PopsOutside(f) ==
  /\ TopNibble(f.inst.opcode) = 0
  /\ f.inst.NN = 238
  /\ ~InStack(f.stack_ptr.off - 1)

\* the fetched instruction is 2NNN and stores outside stack[]
PushesOutside(f) ==
  /\ TopNibble(f.inst.opcode) = 2
  /\ ~InStack(f.stack_ptr.off)

\* the fetched instruction is DXYN and reads a sprite row outside ram[]
SpriteOutside(f) ==
  /\ TopNibble(f.inst.opcode) = 13
  /\ \E a \in DrawSprite(f, 0).reads : ~InRam(a)

\* the cycle fetches its opcode outside ram[], or loads PC from outside
\* stack[], or stores outside stack[]: what the build does from there on is
\* not followed
LeavesModel(c, f) ==
  \/ ~InRam(c.PC) \/ ~InRam(c.PC + 1)
  \/ PopsOutside(f)
  \/ PushesOutside(f)

\* main, lines 471-479: one instruction cycle, then SDL_Delay and
\* update_screen, which change nothing of the machine
EmulateInstruction ==
  /\ pc = "emulate"
  /\ cycles < MaxCycles
  /\ \E hi \in JunkIf(~InRam(chip8.PC), UBBytes),
        lo \in JunkIf(~InRam(chip8.PC + 1), UBBytes) :
       LET f == Fetched(chip8, hi, lo)
       IN \E word \in JunkIf(PopsOutside(f), UBWords),
             sprite \in JunkIf(SpriteOutside(f), UBBytes) :
            /\ chip8' = Execute(f, word, sprite)
            /\ pc' = IF LeavesModel(chip8, f) THEN "fault" ELSE "loop"
  /\ cycles' = cycles + 1
  /\ UNCHANGED rom_name

----------------------------------------------------------------------------
(* main *)

Init ==
  /\ rom_name \in Roms
  /\ chip8 = ZeroChip8
  /\ pc = "init"
  /\ cycles = 0

Next ==
  \/ InitChip8
  \/ HandleInput
  \/ EmulateInstruction
  \/ FinalCleanup

Spec == Init /\ [][Next]_vars

----------------------------------------------------------------------------
(* Vocabulary of the properties *)

\* the step is one call of emulate_instruction
Cycle == cycles' = cycles + 1

\* the two bytes of the next fetch lie inside ram[]
FetchInRam == InRam(chip8.PC) /\ InRam(chip8.PC + 1)

\* the opcode at PC, hi * 256 + lo
OpcodeAtPC == chip8.ram[chip8.PC] * 256 + chip8.ram[chip8.PC + 1]

FieldX(op) == (op \div 256) % 16
FieldY(op) == (op \div 16) % 16
FieldN(op) == op % 16
Family(op) == op \div 4096

\* the step is a cycle that executes a DXYN read from ram[]
DrawCycle == Cycle /\ FetchInRam /\ Family(OpcodeAtPC) = 13

\* bit k of a byte, bit 7 the most significant
Bit(byte, k) == (byte \div Pow2(k)) % 2 = 1

\* start column, start row and height of the draw at PC
Col0 == chip8.V[FieldX(OpcodeAtPC)] % 64
Row0 == chip8.V[FieldY(OpcodeAtPC)] % 32
Height == FieldN(OpcodeAtPC)

\* sprite rows inside the clipped drawing area
ClippedRows == {r \in 0..(Height - 1) : Row0 + r < 32}

\* cell (row, col) lies in the clipped drawing area
InArea(row, col) ==
  /\ row - Row0 \in ClippedRows
  /\ col - Col0 \in 0..7

\* the sprite bit that targets cell (row, col) of the area
AreaBit(row, col) == Bit(chip8.ram[chip8.I + (row - Row0)], 7 - (col - Col0))

\* every sprite row of the clipped area is read inside ram[]
SpriteInRam == \A r \in ClippedRows : InRam(chip8.I + r)

----------------------------------------------------------------------------
(* C1 *)

\* C1: after one DXYN cycle every display cell (r0+r, c0+b) of the clipped
\* drawing area (0 <= r < N, 0 <= b < 8, r0+r < 32, c0+b < 64; c0 = V[X] mod
\* 64, r0 = V[Y] mod 32 read at the start of the cycle) equals its old value
\* XOR bit (7-b) of ram[I+r], for every row whose byte ram[I+r] exists, and
\* every other cell is unchanged: nothing wraps to row 0 or column 0.
SpriteCompositing ==
  [][DrawCycle =>
       \A row \in 0..31, col \in 0..63 :
         LET idx == row * 64 + col
         IN IF InArea(row, col)
            THEN InRam(chip8.I + (row - Row0)) =>
                   chip8'.display[idx] = (chip8.display[idx] # AreaBit(row, col))
            ELSE chip8'.display[idx] = chip8.display[idx]]_vars

\* a draw of two rows of 0xFF at column 60, row 30 has lit columns 60..63 of
\* rows 30 and 31 and nothing in column 0
ClippedDrawDone ==
  /\ pc = "loop"
  /\ chip8.inst.opcode = 53267
  /\ chip8.V[0] = 60 /\ chip8.V[1] = 30
  /\ \A col \in 60..63 : chip8.display[30 * 64 + col] /\ chip8.display[31 * 64 + col]
  /\ \A row \in 0..31 : ~chip8.display[row * 64]

----------------------------------------------------------------------------
(* C2 *)

\* C2: after a DXYN cycle (sprite rows read inside ram[]) V[15] is 1 if and
\* only if some set sprite bit inside the clipped drawing area targeted a
\* cell that was on, and 0 otherwise, whatever V[15] held before.
CollisionFlag ==
  [][DrawCycle /\ SpriteInRam =>
       chip8'.V[15] =
         IF \E row \in 0..31, col \in 0..63 :
              InArea(row, col) /\ AreaBit(row, col) /\ chip8.display[row * 64 + col]
         THEN 1 ELSE 0]_vars

\* a draw has found lit cells under its set bits
CollisionSeen ==
  /\ pc = "loop"
  /\ Family(chip8.inst.opcode) = 13
  /\ chip8.V[15] = 1
  /\ cycles >= 2

----------------------------------------------------------------------------
(* C3 *)

\* the display after executing the instruction of the step once more, with
\* junk for any sprite byte read outside ram[]
RedrawnDisplay(junk) == Execute(chip8', 0, junk).display

\* C3 (as amended): for X, Y in 0..14 and sprite rows read inside ram[],
\* executing the identical DXYN twice in succession restores every display
\* cell to the value it had before the first draw.
DoubleDrawRestores ==
  [][DrawCycle /\ SpriteInRam
       /\ FieldX(OpcodeAtPC) # 15 /\ FieldY(OpcodeAtPC) # 15
       => RedrawnDisplay(0) = chip8.display]_vars

\* C3 (as claimed): for every X, Y in 0..15, every N and every I, the second
\* of two successive identical draws restores the display.
DoubleDrawRestoresAlways ==
  [][DrawCycle => \A junk \in UBBytes : RedrawnDisplay(junk) = chip8.display]_vars

\* the same DXYN (X, Y < 15) has run twice in a row and erased what it drew
RedrawDone ==
  /\ pc = "loop"
  /\ Family(chip8.inst.opcode) = 13
  /\ FieldX(chip8.inst.opcode) # 15 /\ FieldY(chip8.inst.opcode) # 15
  /\ chip8.PC >= EntryPoint + 4 /\ chip8.PC < RamSize
  /\ chip8.ram[chip8.PC - 4] * 256 + chip8.ram[chip8.PC - 3] = chip8.inst.opcode
  /\ chip8.ram[chip8.PC - 2] * 256 + chip8.ram[chip8.PC - 1] = chip8.inst.opcode
  /\ chip8.V[15] = 1
  /\ \A i \in DOMAIN chip8.display : ~chip8.display[i]

----------------------------------------------------------------------------
(* C4 *)

Depth == chip8.stack_ptr.off

\* C4: a 2NNN fetched at p with depth d < 12 sets PC to NNN, the depth to
\* d+1 and stack[d] to p+2; no step changes a stack entry below the depth it
\* starts and ends with; a 00EE executed at depth d+1 sets PC to stack[d]
\* and the depth to d. So the 00EE that next runs at depth d+1 returns to
\* p+2, whatever balanced calls and returns ran in between.
CallReturnPairing ==
  [][/\ Cycle /\ FetchInRam /\ Family(OpcodeAtPC) = 2 /\ Depth \in 0..11 =>
          /\ chip8'.PC = OpcodeAtPC % 4096
          /\ chip8'.stack_ptr.off = Depth + 1
          /\ chip8'.stack[Depth] = chip8.PC + 2
     /\ \A k \in 0..11 :
          k < Depth /\ k < chip8'.stack_ptr.off => chip8'.stack[k] = chip8.stack[k]
     /\ Cycle /\ FetchInRam /\ Family(OpcodeAtPC) = 0 /\ OpcodeAtPC % 256 = 238
          /\ Depth \in 1..12 =>
            /\ chip8'.PC = chip8.stack[Depth - 1]
            /\ chip8'.stack_ptr.off = Depth - 1]_vars

\* 2206 1202 00EE 2204 00EE: the call at 0x200 and the nested call at 0x206
\* have both returned, the outer one to 0x202
NestedCallsReturned ==
  /\ pc = "loop"
  /\ chip8.inst.opcode = 238
  /\ Depth = 0
  /\ chip8.PC = 514
  /\ chip8.stack[0] = 514 /\ chip8.stack[1] = 520

----------------------------------------------------------------------------
(* C5 *)

\* C5: in every state of a run of a loaded program the call-stack depth is
\* between 0 and 12; no cycle executes 2NNN with 12 entries on the stack,
\* nor 00EE with none.
StackBounds ==
  [][/\ pc' \in {"loop", "emulate", "exit_success", "fault"} =>
          chip8'.stack_ptr.off \in 0..12
     /\ Cycle /\ FetchInRam =>
          /\ Family(OpcodeAtPC) = 2 => Depth < 12
          /\ Family(OpcodeAtPC) = 0 /\ OpcodeAtPC % 256 = 238 => Depth > 0]_vars

----------------------------------------------------------------------------
(* C6 *)

\* C6: every instruction cycle starts with PC even and in [0, 4094], so
\* that ram[PC] and ram[PC+1] are inside the memory.
PCInvariant ==
  [][Cycle => chip8.PC % 2 = 0 /\ chip8.PC \in 0..4094]_vars

----------------------------------------------------------------------------
(* C7 *)

\* C7: every display cell a DXYN cycle reads or writes has row in 0..31 and
\* column in 0..63, that is, linear index in 0..2047.
DisplayIndexSafe ==
  pc = "emulate" /\ FetchInRam /\ Family(OpcodeAtPC) = 13 =>
    \A junk \in UBBytes :
      DrawSprite(Fetched(chip8, 0, 0), junk).access \subseteq 0..2047

\* 603F 615F D01F: a 15-row draw from column 63 mod 64, row 95 mod 32 has
\* lit the last cell of the display
CornerDrawDone ==
  /\ pc = "loop"
  /\ chip8.inst.opcode = 53279
  /\ chip8.V[0] = 63 /\ chip8.V[1] = 95
  /\ chip8.display[2047]

----------------------------------------------------------------------------
(* C8 *)

\* C8: no call of emulate_instruction happens in a state where RunState is
\* Halted, not even in the loop iteration that polled the quit event.
HaltStopsExecution ==
  [][Cycle => chip8.state # "QUIT"]_vars

----------------------------------------------------------------------------
(* C9 *)

\* C9: when the program image is larger than 3584 bytes, construction fails
\* with memory (addresses 0..79 included), PC, stack pointer and RunState
\* still at their pre-construction values.
OversizedRejectionMutationFree ==
  pc = "exit_failure" /\ rom_name.exists /\ rom_name.size > 3584 =>
    /\ chip8.ram = ZeroChip8.ram
    /\ chip8.PC = ZeroChip8.PC
    /\ chip8.stack_ptr = ZeroChip8.stack_ptr
    /\ chip8.state = ZeroChip8.state

----------------------------------------------------------------------------
(* C10 *)

\* op is outside the implemented set: its top nibble is not one of
\* 0, 1, 2, 6, 7, A, D, or it is 0 and the low byte is neither E0 nor EE
Unrecognized(op) ==
  \/ Family(op) \notin {0, 1, 2, 6, 7, 10, 13}
  \/ Family(op) = 0 /\ op % 256 \notin {224, 238}

\* C10: one cycle of an unrecognized opcode sets PC to PC+2 and leaves
\* V[0..15], I, the call stack and its depth, the display, memory and
\* RunState unchanged.
UnrecognizedIsNoOp ==
  [][Cycle /\ FetchInRam /\ Unrecognized(OpcodeAtPC) =>
       /\ chip8'.PC = chip8.PC + 2
       /\ chip8'.V = chip8.V
       /\ chip8'.I = chip8.I
       /\ chip8'.stack = chip8.stack
       /\ chip8'.stack_ptr = chip8.stack_ptr
       /\ chip8'.display = chip8.display
       /\ chip8'.ram = chip8.ram
       /\ chip8'.state = chip8.state]_vars

\* 3100 4100 5110 8124 9150 B200 C0FF E19E F00A 00E1 0123 have all run
UnrecognizedAllRun ==
  /\ pc = "loop"
  /\ chip8.inst.opcode = 291
  /\ cycles = 11
  /\ chip8.PC = EntryPoint + 22

----------------------------------------------------------------------------
(* C11 *)

\* the machine has been constructed and the driver loop entered
Constructed == pc \in {"loop", "emulate", "exit_success", "fault"}

\* C11: no instruction cycle changes a memory byte (below 512 or above),
\* and in every state after construction the bytes at 0..79 are the font.
MemoryNeverMutated ==
  [][/\ Cycle => chip8'.ram = chip8.ram
     /\ Constructed' => \A a \in 0..79 : chip8'.ram[a] = font[a + 1]]_vars

\* D005 00E0: a draw and a clear have run and the font is still in place
FontIntactAfterRun ==
  /\ pc = "loop"
  /\ cycles = 2
  /\ rom_name.words = <<53253, 224>>
  /\ chip8.ram[0] = 240 /\ chip8.ram[79] = 128
  /\ chip8.ram[512] = 208 /\ chip8.ram[513] = 5

----------------------------------------------------------------------------
(* C12 *)

\* C12: a DXYN cycle, for every X, Y and N, leaves V[0..14], I, the call
\* stack and its depth, memory and the run state as they were and moves PC
\* on by 2; only display cells and V[15] may differ.
DrawFrame ==
  [][DrawCycle =>
       /\ \A r \in 0..14 : chip8'.V[r] = chip8.V[r]
       /\ chip8'.I = chip8.I
       /\ chip8'.stack = chip8.stack
       /\ chip8'.stack_ptr = chip8.stack_ptr
       /\ chip8'.ram = chip8.ram
       /\ chip8'.state = chip8.state
       /\ chip8'.PC = chip8.PC + 2]_vars

\* A20A 603C 611E D013: the draw ran with I, V0 and V1 set beforehand and
\* lit cells of the display
DrawFrameDone ==
  /\ pc = "loop"
  /\ cycles = 4
  /\ chip8.inst.opcode = 53267
  /\ chip8.I = 522 /\ chip8.V[0] = 60 /\ chip8.V[1] = 30
  /\ chip8.PC = 520
  /\ \E idx \in 0..(DisplaySize - 1) : chip8.display[idx]

----------------------------------------------------------------------------
(* C13 *)

\* the two-instruction program 6005 7003
Rom60057003 == Program(<<24581, 28675>>)

\* C13: a 7XNN cycle sets V[X] to (V[X] + NN) mod 256 and leaves every other
\* register, V[15] included, and I unchanged; after the two cycles of
\* 6005 7003, V[0] = 8 and PC = 516.
AddImmediateWraps ==
  [][Cycle /\ FetchInRam /\ Family(OpcodeAtPC) = 7 =>
       /\ chip8'.V = [chip8.V EXCEPT ![FieldX(OpcodeAtPC)] =
                        (chip8.V[FieldX(OpcodeAtPC)] + (OpcodeAtPC % 256)) % 256]
       /\ chip8'.I = chip8.I
       /\ (rom_name = Rom60057003 /\ cycles' = 2) =>
            chip8'.V[0] = 8 /\ chip8'.PC = 516]_vars

\* 60FA 700A: 250 + 10 has wrapped to 4 and V[15] is still 0
AddWrapped ==
  /\ pc = "loop"
  /\ cycles = 2
  /\ chip8.inst.opcode = 28682
  /\ chip8.ram[512] = 96 /\ chip8.ram[513] = 250
  /\ chip8.V[0] = 4
  /\ chip8.V[15] = 0

----------------------------------------------------------------------------
(* C14 *)

\* C14: while RunState is Paused no cycle executes and the machine state is
\* kept; a toggle resumes from exactly that state; and a quit event polled
\* while Paused halts without the driver going on to emulate_instruction.
PausedFreezes ==
  [][chip8.state = "PAUSED" =>
       /\ ~Cycle
       /\ [chip8' EXCEPT !.state = "PAUSED"] = chip8
       /\ chip8'.state = "QUIT" => pc' # "emulate"]_vars

----------------------------------------------------------------------------
(* C15 *)

\* C15: after construction, a step from a Halted state leaves RunState
\* Halted; no instruction cycle changes RunState; and every step that changes
\* RunState is the poll of handle_input, which changes nothing else of the
\* machine.
HaltedAbsorbing ==
  [][/\ (Constructed /\ chip8.state = "QUIT") => chip8'.state = "QUIT"
     /\ Cycle => chip8'.state = chip8.state
     /\ (Constructed /\ chip8'.state # chip8.state) =>
          /\ pc = "loop" /\ pc' \in {"loop", "emulate"}
          /\ cycles' = cycles
          /\ [chip8' EXCEPT !.state = chip8.state] = chip8]_vars

\* the loop has ended in Halted after three cycles and the process exits
HaltedAfterRun ==
  /\ pc = "exit_success"
  /\ chip8.state = "QUIT"
  /\ cycles = 3

----------------------------------------------------------------------------
(* C16 *)

\* the fetched machine f with 1NNN, NNN = a, as its decoded instruction
WithJumpTo(f, a) == [f EXCEPT !.inst = Decode(4096 + a)]

\* the one-instruction program 1201
Rom1201 == Program(<<4609>>)

\* C16: a 1NNN cycle leaves PC at exactly NNN, odd or even, and every
\* register, I, the stack and its depth, the display, memory and the run
\* state as they were; and at the cycle of the program 1201, the same holds
\* of the switch for every target a in 0..4095.
JumpExact ==
  [][Cycle /\ FetchInRam /\ Family(OpcodeAtPC) = 1 =>
       /\ chip8'.PC = OpcodeAtPC % 4096
       /\ [chip8' EXCEPT !.PC = chip8.PC, !.inst = chip8.inst] = chip8
       /\ rom_name = Rom1201 =>
            \A a \in 0..(RamSize - 1) :
              LET f == WithJumpTo(Fetched(chip8, 0, 0), a)
              IN Execute(f, 0, 0) = [f EXCEPT !.PC = a]]_vars

\* 1201: the jump to the odd address 513 has been taken
JumpedToOdd ==
  /\ pc = "loop"
  /\ cycles = 1
  /\ chip8.inst.opcode = 4609
  /\ chip8.PC = 513

----------------------------------------------------------------------------
(* C17 *)

\* C17: after a 00E0 cycle all 2048 display cells are off, and the
\* registers, I, the stack and its depth, memory and the run state are as
\* they were.
ClearScreen ==
  [][Cycle /\ FetchInRam /\ OpcodeAtPC = 224 =>
       /\ \A idx \in 0..2047 : ~chip8'.display[idx]
       /\ chip8'.V = chip8.V
       /\ chip8'.I = chip8.I
       /\ chip8'.stack = chip8.stack
       /\ chip8'.stack_ptr = chip8.stack_ptr
       /\ chip8'.ram = chip8.ram
       /\ chip8'.state = chip8.state]_vars

\* D005 00E0: the five rows the draw lit have been cleared
ClearedAfterDraw ==
  /\ pc = "loop"
  /\ cycles = 2
  /\ rom_name.words = <<53253, 224>>
  /\ chip8.inst.opcode = 224
  /\ chip8.PC = 516
  /\ \A idx \in 0..2047 : ~chip8.display[idx]

----------------------------------------------------------------------------
(* C18 *)

\* the values of a byte
Bytes == 0..(U8 - 1)

\* low bytes of the one-instruction programs that are run: 00, 7A, E0, FF
LoBytesRun == {0, 122, 224, 255}

\* the words of the one-instruction programs: every high byte, each with
\* every low byte of LoBytesRun
OpcodeWords == {hi * U8 + lo : hi \in Bytes, lo \in LoBytesRun}

\* the machine init_chip8 constructs from the one-instruction program 0000
ZeroWordMachine == InitChip8Result(ZeroChip8, Program(<<0>>))

\* the machine init_chip8 constructs from the one-instruction program w:
\* fread stores its two bytes at the entry point
OneWordMachine(w) ==
  [ZeroWordMachine EXCEPT !.ram[EntryPoint] = w \div U8,
                          !.ram[EntryPoint + 1] = w % U8]

\* the constructed machine, one for each byte pair
DecodeInit ==
  /\ \E w \in OpcodeWords :
       /\ rom_name = Program(<<w>>)
       /\ chip8 = OneWordMachine(w)
  /\ pc = "loop"
  /\ cycles = 0

\* lines 335-343 of the first cycle: fetch, PC += 2, decode
FetchDecode ==
  /\ pc = "loop"
  /\ chip8' = Fetched(chip8, 0, 0)
  /\ pc' = "decoded"
  /\ UNCHANGED <<rom_name, cycles>>

DecodeNext == FetchDecode

SpecDecode == DecodeInit /\ [][DecodeNext]_vars

\* the two bytes at the entry point
HiByte == chip8.ram[EntryPoint]
LoByte == chip8.ram[EntryPoint + 1]

\* the fields the claim gives for the opcode word op
FieldsOf(op) ==
  Decoded(op, op % 4096, op % 256, op % 16, (op \div 256) % 16, (op \div 16) % 16)

\* C18: for every byte pair hi, lo the fetched opcode is hi * 256 + lo and the
\* decoded fields are NNN = opcode mod 4096, NN = opcode mod 256,
\* N = opcode mod 16, X = (opcode div 256) mod 16, Y = (opcode div 16) mod 16:
\* so it is in the machine that has run fetch and decode, and so fetch and
\* decode make it with each of the 256 low bytes beside that high byte.
DecoderFields ==
  pc = "decoded" =>
    /\ chip8.inst = FieldsOf(HiByte * 256 + LoByte)
    /\ \A lo \in Bytes :
         Fetched(OneWordMachine(HiByte * U8 + lo), 0, 0).inst
           = FieldsOf(HiByte * 256 + lo)

\* the byte pair D3, 7A has been fetched and decoded
DecodedD37A ==
  /\ pc = "decoded"
  /\ HiByte = 211 /\ LoByte = 122
  /\ chip8.inst = Decoded(54138, 890, 122, 10, 3, 7)
  /\ chip8.PC = 514

----------------------------------------------------------------------------
(* C19 *)

\* C19: every sprite row byte a DXYN cycle reads, at I + r, lies inside
\* memory, at an address in 0..4095.
SpriteReadsInRam ==
  [][DrawCycle =>
       \A a \in DrawSprite(Fetched(chip8, 0, 0), 0).reads : a \in 0..4095]_vars

----------------------------------------------------------------------------
(* C20 *)

\* C20: in a DXYN cycle with X = 15 or Y = 15 the drawing area starts at the
\* column and row given by the value V[15] held before the cycle: every cell
\* the cycle changes lies in the area anchored there, every cell of that area
\* under a set sprite bit is toggled, and V[15] ends as the 0 or 1 of the
\* draw.
FlagAsCoordinate ==
  [][DrawCycle /\ (FieldX(OpcodeAtPC) = 15 \/ FieldY(OpcodeAtPC) = 15) =>
       /\ \A row \in 0..31, col \in 0..63 :
            LET idx == row * 64 + col
            IN /\ chip8'.display[idx] # chip8.display[idx] => InArea(row, col)
               /\ (/\ InArea(row, col)
                   /\ InRam(chip8.I + (row - Row0))
                   /\ AreaBit(row, col)) =>
                    chip8'.display[idx] # chip8.display[idx]
       /\ chip8'.V[15] \in {0, 1}]_vars

\* 6F05 DF01: with V[15] = 5 before the draw, the row F0 of the font has been
\* drawn at column 5 of row 0, nothing at column 0, and V[15] is now 0
DrawnAtOldFlag ==
  /\ pc = "loop"
  /\ cycles = 2
  /\ chip8.ram[512] = 111 /\ chip8.ram[513] = 5
  /\ chip8.inst.opcode = 57089
  /\ \A col \in 5..8 : chip8.display[col]
  /\ \A col \in 0..4 : ~chip8.display[col]
  /\ chip8.V[15] = 0

====
